---- MODULE Spec2Model ----
(***************************************************************************)
(* PromptEngine of ts-context-mcp (src/src/engine.ts, lines 1-216): the    *)
(* project model built by refresh() and the four queries over it.          *)
(*                                                                         *)
(* Text is a sequence of atoms (strings): one atom per lexical piece that  *)
(* the engine's string operations can tell apart ("{", ";", " ", a word    *)
(* group).  A path is a sequence of segments.                              *)
(***************************************************************************)
EXTENDS Integers, Sequences, FiniteSets, TLC

VARIABLES
  disk,      \* file system: absolute file path -> content id, or "absent"
  tsconfig,  \* content of <ProjDir>/tsconfig.json, or "none"
  rootDir,   \* PromptEngine.rootDir
  program,   \* PromptEngine.program (a snapshot, or undefined)
  checker,   \* PromptEngine.checker (the snapshot it was created for, or undefined)
  result,    \* the last call on the engine and what it returned
  edits,     \* number of file-system changes made so far
  streak     \* number of refresh() calls in a row, nothing else in between

vars == <<disk, tsconfig, rootDir, program, checker, result, edits, streak>>

----------------------------------------------------------------------------
(* Bounds of the model *)

MaxEdits == 1
MaxStreak == 2

----------------------------------------------------------------------------
(* Generic helpers on sequences *)

RECURSIVE Flatten(_)
Flatten(ss) == IF ss = <<>> THEN <<>> ELSE Head(ss) \o Flatten(Tail(ss))

Range(s) == {s[i] : i \in 1..Len(s)}

IsPrefix(p, s) == Len(p) <= Len(s) /\ SubSeq(s, 1, Len(p)) = p

Last(s) == s[Len(s)]

Front(s) == SubSeq(s, 1, Len(s) - 1)

\* Array.prototype.join: the texts of parts separated by sep
RECURSIVE Join(_, _)
Join(parts, sep) ==
  IF parts = <<>> THEN <<>>
  ELSE IF Len(parts) = 1 THEN Head(parts)
  ELSE Head(parts) \o <<sep>> \o Join(Tail(parts), sep)

\* s occurs in t as a contiguous run of atoms
Contains(t, s) ==
  \E i \in 0..(Len(t) - Len(s)) : SubSeq(t, i + 1, i + Len(s)) = s

Count(t, a) == Cardinality({i \in 1..Len(t) : t[i] = a})

----------------------------------------------------------------------------
(* String operations of the engine, on atom sequences *)

NL == "\n"
SP == " "
LBRACE == "{"
SEMI == ";"

\* String.prototype.split('{')[0]: the text before the first "{"
RECURSIVE SplitBrace0(_)
SplitBrace0(t) ==
  IF t = <<>> THEN <<>>
  ELSE IF Head(t) = LBRACE THEN <<>>
  ELSE <<Head(t)>> \o SplitBrace0(Tail(t))

\* String.prototype.trim: white space removed at both ends
RECURSIVE TrimLeft(_)
TrimLeft(t) ==
  IF t # <<>> /\ Head(t) \in {SP, NL} THEN TrimLeft(Tail(t)) ELSE t

RECURSIVE TrimRight(_)
TrimRight(t) ==
  IF t # <<>> /\ Last(t) \in {SP, NL} THEN TrimRight(Front(t)) ELSE t

Trim(t) == TrimRight(TrimLeft(t))

\* String.prototype.replace(/;$/, ''): one ";" removed at the very end
StripSemi(t) == IF t # <<>> /\ Last(t) = SEMI THEN Front(t) ELSE t

\* '  '.repeat(depth)
RECURSIVE Indent(_)
Indent(depth) == IF depth = 0 THEN <<>> ELSE <<"  ">> \o Indent(depth - 1)

----------------------------------------------------------------------------
(* Paths: a path is the sequence of its segments (node's path module) *)

ProjDir == <<"proj">>
CwdDir == <<"cwd">>
MissingDir == <<"missing">>

PA == <<"proj", "a.ts">>
PB == <<"proj", "b.ts">>
PU == <<"proj", "src", "u.ts">>
PN == <<"proj", "node_modules", "lib", "index.ts">>
PNotes == <<"proj", "notes.md">>
PC == <<"cwd", "c.ts">>
PConfig == <<"proj", "tsconfig.json">>
PLib == <<"ts", "lib.d.ts">>
PS == <<"proj-old", "s.ts">>

FilePaths == {PA, PB, PU, PN, PNotes, PC, PS}

\* path.resolve(base, rel): "." and ".." segments are folded away
RECURSIVE Fold(_, _)
Fold(acc, segs) ==
  IF segs = <<>> THEN acc
  ELSE IF Head(segs) = "." THEN Fold(acc, Tail(segs))
  ELSE IF Head(segs) = ".." THEN Fold(IF acc = <<>> THEN acc ELSE Front(acc), Tail(segs))
  ELSE Fold(Append(acc, Head(segs)), Tail(segs))

PathResolve(base, rel) == Fold(base, rel)

\* path.relative(from, to)
RECURSIVE Ups(_)
Ups(n) == IF n = 0 THEN <<>> ELSE <<"..">> \o Ups(n - 1)

RECURSIVE CommonLen(_, _)
CommonLen(a, b) ==
  IF a = <<>> \/ b = <<>> \/ Head(a) # Head(b) THEN 0
  ELSE 1 + CommonLen(Tail(a), Tail(b))

PathRelative(from, to) ==
  LET c == CommonLen(from, to)
  IN Ups(Len(from) - c) \o SubSeq(to, c + 1, Len(to))

PathDirname(p) == Front(p)

\* the text of a path: its segments joined by the separator
PathText(segs) == Join([i \in 1..Len(segs) |-> <<segs[i]>>], "/")

\* relResolved.split(path.sep).join('/').replace(/^\.\//, '')
NormalizeRel(segs) ==
  IF Len(segs) > 1 /\ Head(segs) = "." THEN PathText(Tail(segs)) ELSE PathText(segs)

----------------------------------------------------------------------------
(* Syntax trees.  A node carries what the TypeScript API gives the engine:  *)
(* its kind, getText(), modifiers, name, module specifier and children;     *)
(* hdr is the number of atoms of text before the node's body (node.body),   *)
(* impl the atoms of its body or initializer, binds the identifiers a       *)
(* variable declaration binds.                                              *)

Nd(kind, mods, name, text, hdr, impl, spec, binds, kids) ==
  [kind |-> kind, mods |-> mods, name |-> name, text |-> text, hdr |-> hdr,
   impl |-> impl, spec |-> spec, binds |-> binds, kids |-> kids]

VarDecl(name, binds, init) ==
  Nd("VarDecl", <<>>, name, <<name, " = ">> \o init, 1, init, "", binds, <<>>)

\* export interface Result { value: number; }
NResult ==
  Nd("Interface", <<"export">>, "Result",
     <<"export interface Result", SP, LBRACE, " value: number; ", "}">>,
     2, <<" value: number; ">>, "", <<>>, <<>>)

\* export const add = (a: number, b: number) => a + b;
NAdd ==
  Nd("VarStmt", <<"export">>, "",
     <<"export const ", "add", " = ", "(a: number, b: number) => a + b", SEMI>>,
     0, <<>>, "", <<>>,
     <<VarDecl("add", <<"add">>, <<"(a: number, b: number) => a + b">>)>>)

\* function localOnly() { return 'local'; }
NLocalOnly ==
  Nd("Function", <<>>, "localOnly",
     <<"function localOnly()", SP, LBRACE, " return 'local'; ", "}">>,
     2, <<" return 'local'; ">>, "", <<>>, <<>>)

Import(text, spec) ==
  Nd("ImportDecl", <<>>, "", <<text, SEMI>>, 0, <<>>, spec, <<>>, <<>>)

\* import { tool } from './b';   (inside namespace Inner)
NNestedImport == Import("import { tool } from './b'", "./b")

\* export function run({ x }: Opt): number { return add(x); }
NRun ==
  Nd("Function", <<"export">>, "run",
     <<"export function run(", LBRACE, " x ", "}", ": Opt): number", SP,
       LBRACE, " return add(x); ", "}">>,
     6, <<" return add(x); ">>, "", <<>>, <<>>)

\* private base: number = 0;
NBase ==
  Nd("Property", <<"private">>, "base", <<"private base: number = 0", SEMI>>,
     0, <<>>, "", <<>>, <<>>)

\* constructor(val: number) { this.base = val; }
NCtor ==
  Nd("Constructor", <<>>, "",
     <<"constructor(val: number)", SP, LBRACE, " this.base = val; ", "}">>,
     2, <<" this.base = val; ">>, "", <<>>, <<>>)

\* const result = this.base + x;
NResultVar ==
  Nd("VarStmt", <<>>, "",
     <<"const ", "result", " = ", "this.base + x", SEMI>>, 0, <<>>, "", <<>>,
     <<VarDecl("result", <<"result">>, <<"this.base + x">>)>>)

\* public add(x: number): number { const result = this.base + x; return result; }
NAddMethod ==
  Nd("Method", <<"public">>, "add",
     <<"public add(x: number): number", SP, LBRACE,
       " const result = this.base + x; return result; ", "}">>,
     2, <<" const result = this.base + x; return result; ">>, "", <<>>,
     <<NResultVar>>)

\* export class Calculator { ... }
NCalculator ==
  Nd("Class", <<"export">>, "Calculator",
     <<"export class Calculator", SP, LBRACE>> \o NBase.text \o NCtor.text
       \o NAddMethod.text \o <<"}">>,
     2, <<>>, "", <<>>, <<NBase, NCtor, NAddMethod>>)

\* export function helper(): void { return; }   (inside namespace Inner)
NHelper ==
  Nd("Function", <<"export">>, "helper",
     <<"export function helper(): void", SP, LBRACE, " return; ", "}">>,
     2, <<" return; ">>, "", <<>>, <<>>)

\* namespace Inner { import { tool } from './b'; export function helper(): void { return; } }
NInner ==
  Nd("Namespace", <<>>, "Inner",
     <<"namespace Inner", SP, LBRACE>> \o NNestedImport.text \o NHelper.text
       \o <<"}">>,
     2, <<>>, "", <<>>, <<NNestedImport, NHelper>>)

\* an export declaration: name is "*" for export-star, binds are the names
\* an export list exposes, spec is "" when there is no from-clause
ExportDecl(text, semi, spec, name, binds) ==
  Nd("ExportDecl", <<>>, name, <<text>> \o (IF semi THEN <<SEMI>> ELSE <<>>),
     0, <<>>, spec, binds, <<>>)

\* const local = 3;
NLocal ==
  Nd("VarStmt", <<>>, "", <<"const ", "local", " = ", "3", SEMI>>, 0, <<>>, "",
     <<>>, <<VarDecl("local", <<"local">>, <<"3">>)>>)

\* export const m = 1, n = 2;
NMn ==
  Nd("VarStmt", <<"export">>, "",
     <<"export const ", "m", " = ", "1", ", ", "n", " = ", "2", SEMI>>,
     0, <<>>, "", <<>>,
     <<VarDecl("m", <<"m">>, <<"1">>), VarDecl("n", <<"n">>, <<"2">>)>>)

\* export const { p, q } = obj;
NPq ==
  Nd("VarStmt", <<"export">>, "",
     <<"export const ", "{ p, q }", " = ", "obj", SEMI>>, 0, <<>>, "", <<>>,
     <<VarDecl("{ p, q }", <<"p", "q">>, <<"obj">>)>>)

\* export const tool = 1;
NTool ==
  Nd("VarStmt", <<"export">>, "",
     <<"export const ", "tool", " = ", "1", SEMI>>, 0, <<>>, "", <<>>,
     <<VarDecl("tool", <<"tool">>, <<"1">>)>>)

\* console.log(tool);
NLog ==
  Nd("ExprStmt", <<>>, "", <<"console.log(tool)", SEMI>>, 0, <<>>, "", <<>>, <<>>)

\* for (let i = 0; i < tool; i++) {}
NLoop ==
  Nd("ForStmt", <<>>, "", <<"for (let ", "i", " = ", "0", "; i < tool; i++) {}">>,
     0, <<>>, "", <<>>, <<VarDecl("i", <<"i">>, <<"0">>)>>)

\* function add(a: number) { return a; }   (after class Calculator)
NAddLater ==
  Nd("Function", <<>>, "add",
     <<"function add(a: number)", SP, LBRACE, " return a; ", "}">>,
     2, <<" return a; ">>, "", <<>>, <<>>)

\* export function libfn(): void { return; }
NLibfn ==
  Nd("Function", <<"export">>, "libfn",
     <<"export function libfn(): void", SP, LBRACE, " return; ", "}">>,
     2, <<" return; ">>, "", <<>>, <<>>)

\* the statements of a file's content
Ast(src) ==
  CASE src = "math" -> <<NResult, NAdd, NLocalOnly>>
    [] src = "app" ->
         <<Import("import { tool } from './b'", "./b"),
           Import("import { tool as t } from '@/u'", "@/u"),
           Import("import { libfn } from 'lib'", "lib"),
           Import("import { z } from 'zod'", "zod"),
           NRun>>
    [] src = "class" -> <<NCalculator, NInner, NAddLater>>
    [] src = "index" ->
         <<ExportDecl("export * from './b'", TRUE, "./b", "*", <<>>),
           ExportDecl("export { tool as t } from '@/u'", FALSE, "@/u", "", <<"t">>),
           NLocal,
           ExportDecl("export { local }", TRUE, "", "", <<"local">>),
           NMn, NPq>>
    [] src = "tool" -> <<NTool>>
    [] src = "user" ->
         <<Import("import { tool } from './src/u'", "./src/u"), NLog, NLoop>>
    [] src = "libsrc" -> <<NLibfn>>
    [] OTHER -> <<>>

\* what each path of the file system can hold
Contents(p) ==
  CASE p = PA -> {"math", "app", "class", "index"}
    [] p = PB -> {"tool", "user"}
    [] p = PU -> {"tool"}
    [] p = PN -> {"libsrc"}
    [] p = PNotes -> {"text"}
    [] p = PC -> {"tool"}
    [] p = PS -> {"tool"}

Mutable == {PA, PB, PU, PN}

Configs == {"plain", "alias", "narrow"}

----------------------------------------------------------------------------
(* The file system as node's fs and ts.sys see it *)

FileExists(d, p) == p \in FilePaths /\ d[p] # "absent"

\* a directory exists when it holds a file; the project and working
\* directories always exist
DirExists(d, p) ==
  \/ p \in {ProjDir, CwdDir, <<>>}
  \/ \E f \in FilePaths : FileExists(d, f) /\ IsPrefix(p, f) /\ Len(p) < Len(f)

\* fs.existsSync
ExistsSync(d, cfg, p) ==
  FileExists(d, p) \/ DirExists(d, p) \/ (p = PConfig /\ cfg # "none")

\* the order in which a directory's entries are listed
NameOrder ==
  <<"a.ts", "b.ts", "c.ts", "index.ts", "lib", "node_modules", "notes.md",
    "src", "tsconfig.json", "u.ts">>

\* fs.readdirSync(dir): names of the entries of dir
ReadDir(d, cfg, dir) ==
  LET Here(n) == ExistsSync(d, cfg, Append(dir, n))
  IN SelectSeq(NameOrder, Here)

\* /\.(js|jsx|ts|tsx)$/.test(file)
SourceNames == {"a.ts", "b.ts", "c.ts", "index.ts", "u.ts"}

IsSourceName(n) == n \in SourceNames

----------------------------------------------------------------------------
(* PromptEngine.getFilesRecursive *)

MAX_DEPTH == 10

ignoreDirs == {"node_modules", ".git", "dist", "build", ".vscode"}

RECURSIVE getFilesRecursive(_, _, _, _)
RECURSIVE WalkEntries(_, _, _, _, _)
WalkEntries(d, cfg, dir, names, depth) ==
  IF names = <<>> THEN <<>>
  ELSE LET file == Head(names)
           fullPath == Append(dir, file)
           rest == WalkEntries(d, cfg, dir, Tail(names), depth)
       IN IF file \in ignoreDirs THEN rest
          ELSE IF DirExists(d, fullPath)
                 THEN getFilesRecursive(d, cfg, fullPath, depth + 1) \o rest
          ELSE IF IsSourceName(file) THEN <<fullPath>> \o rest
          ELSE rest

getFilesRecursive(d, cfg, dir, depth) ==
  IF depth > MAX_DEPTH THEN <<>>
  ELSE WalkEntries(d, cfg, dir, ReadDir(d, cfg, dir), depth)

----------------------------------------------------------------------------
(* ts.resolveModuleName, node module resolution: a relative specifier is    *)
(* looked up from the importing file's directory; any other first through   *)
(* the paths table, then under baseUrl, then in the node_modules            *)
(* directories of the importing file's directory and its ancestors.         *)

SpecInfo(spec) ==
  CASE spec = "./b" -> [rel |-> TRUE, segs |-> <<"b">>]
    [] spec = "./src/u" -> [rel |-> TRUE, segs |-> <<"src", "u">>]
    [] spec = "@/u" -> [rel |-> FALSE, segs |-> <<"@", "u">>]
    [] spec = "lib" -> [rel |-> FALSE, segs |-> <<"lib">>]
    [] spec = "zod" -> [rel |-> FALSE, segs |-> <<"zod">>]

\* the file name a module name stands for: <name>.ts
TsName(n) ==
  CASE n = "b" -> "b.ts" [] n = "u" -> "u.ts" [] n = "lib" -> "lib.ts"
    [] n = "zod" -> "zod.ts" [] n = "@" -> "@.ts" [] n = "src" -> "src.ts"

NoPath == <<>>

\* candidate as a file (<candidate>.ts), then as a directory (<candidate>/index.ts)
TryFile(d, candidate) ==
  LET asFile == Append(Front(candidate), TsName(Last(candidate)))
      asDir == Append(candidate, "index.ts")
  IN IF FileExists(d, asFile) THEN asFile
     ELSE IF FileExists(d, asDir) THEN asDir
     ELSE NoPath

RECURSIVE NodeModulesLookup(_, _, _)
NodeModulesLookup(d, dir, segs) ==
  LET hit == TryFile(d, dir \o <<"node_modules">> \o segs)
  IN IF hit # NoPath THEN hit
     ELSE IF dir = <<>> THEN NoPath
     ELSE NodeModulesLookup(d, Front(dir), segs)

\* the entries of the paths table whose pattern "<prefix>/*" matches
PathsMatch(opts, segs) ==
  LET Hit(e) == Len(segs) > 1 /\ e.prefix = Head(segs)
  IN SelectSeq(opts.paths, Hit)

\* a resolver that does not consult the paths table
ResolveModuleNameNoPaths(spec, containingFile, opts, d) ==
  LET info == SpecInfo(spec)
      dir == PathDirname(containingFile)
      viaBase == IF opts.baseUrl # <<>>
                   THEN TryFile(d, Head(opts.baseUrl) \o info.segs)
                 ELSE NoPath
  IN IF info.rel THEN TryFile(d, PathResolve(dir, info.segs))
     ELSE IF viaBase # NoPath THEN viaBase
     ELSE NodeModulesLookup(d, dir, info.segs)

ResolveModuleName(spec, containingFile, opts, d) ==
  LET info == SpecInfo(spec)
      dir == PathDirname(containingFile)
      matched == PathsMatch(opts, info.segs)
      viaPaths == IF matched = <<>> THEN NoPath
                  ELSE TryFile(d, Head(matched).base \o Head(matched).to
                                    \o Tail(info.segs))
      viaBase == IF matched = <<>> /\ opts.baseUrl # <<>>
                   THEN TryFile(d, Head(opts.baseUrl) \o info.segs)
                 ELSE NoPath
  IN IF info.rel THEN TryFile(d, PathResolve(dir, info.segs))
     ELSE IF viaPaths # NoPath THEN viaPaths
     ELSE IF viaBase # NoPath THEN viaBase
     ELSE NodeModulesLookup(d, dir, info.segs)

----------------------------------------------------------------------------
(* tsconfig.json: ts.findConfigFile, ts.readConfigFile and                  *)
(* ts.parseJsonConfigFileContent                                            *)

\* the options refresh() starts from; none of them adds a paths table
DefaultOptions == [paths |-> <<>>, baseUrl |-> <<>>]

\* { "compilerOptions": { "baseUrl": ".", "paths": { "@/*": ["src/*"] } } }
AliasOptions ==
  [paths |-> <<[prefix |-> "@", base |-> ProjDir, to |-> <<"src">>]>>,
   baseUrl |-> <<ProjDir>>]

\* ts.findConfigFile(rootDir, ...): the configuration file of rootDir or of
\* the nearest ancestor that has one; "none" when there is none
FindConfigFile(cfg, root) ==
  IF cfg # "none" /\ IsPrefix(ProjDir, root) THEN cfg ELSE "none"

excludeDirs == {"node_modules", "bower_components", "jspm_packages"}

\* the default include of a configuration: the TypeScript files under the
\* configuration's directory, a directory's files before its subdirectories
RECURSIVE MatchFiles(_, _, _)
RECURSIVE MatchDirs(_, _, _, _)
MatchDirs(d, cfg, dir, names) ==
  IF names = <<>> THEN <<>>
  ELSE LET sub == Append(dir, Head(names))
       IN (IF Head(names) \notin excludeDirs /\ DirExists(d, sub)
             THEN MatchFiles(d, cfg, sub) ELSE <<>>)
          \o MatchDirs(d, cfg, dir, Tail(names))

MatchFiles(d, cfg, dir) ==
  LET names == ReadDir(d, cfg, dir)
      IsFile(n) == FileExists(d, Append(dir, n)) /\ IsSourceName(n)
      files == SelectSeq(names, IsFile)
  IN [i \in 1..Len(files) |-> Append(dir, files[i])] \o MatchDirs(d, cfg, dir, names)

\* parsedConfig.options
ConfigOptions(cfg) == IF cfg = "alias" THEN AliasOptions ELSE DefaultOptions

\* parsedConfig.fileNames; { "files": ["a.ts"] } names its one file
ConfigFileNames(d, cfg) ==
  IF cfg = "narrow" THEN <<PA>> ELSE MatchFiles(d, cfg, ProjDir)

----------------------------------------------------------------------------
(* ts.createProgram: the root files and every file their imports and        *)
(* export-from statements resolve to, an imported file before its importer, *)
(* after the default library                                                *)

IsModuleRef(n) == n.kind \in {"ImportDecl", "ExportDecl"} /\ n.spec # ""

RECURSIVE ProcessFile(_, _, _, _)
RECURSIVE ProcessImports(_, _, _, _, _)
ProcessImports(d, opts, path, refs, st) ==
  IF refs = <<>> THEN st
  ELSE LET target == ResolveModuleName(Head(refs).spec, path, opts, d)
           st1 == IF target = NoPath THEN st ELSE ProcessFile(d, opts, target, st)
       IN ProcessImports(d, opts, path, Tail(refs), st1)

ProcessFile(d, opts, path, st) ==
  IF path \in st.seen \/ ~FileExists(d, path) THEN st
  ELSE LET st1 == [st EXCEPT !.seen = @ \cup {path}]
           st2 == ProcessImports(d, opts, path, SelectSeq(Ast(d[path]), IsModuleRef), st1)
       IN [st2 EXCEPT !.order = Append(@, path)]

RECURSIVE ProcessRoots(_, _, _, _)
ProcessRoots(d, opts, roots, st) ==
  IF roots = <<>> THEN st
  ELSE ProcessRoots(d, opts, Tail(roots), ProcessFile(d, opts, Head(roots), st))

LibFile == [path |-> PLib, src |-> "libdts"]

NoProgram == [defined |-> FALSE, files |-> <<>>, options |-> DefaultOptions]

CreateProgram(fileNames, opts, d) ==
  LET done == ProcessRoots(d, opts, fileNames, [order |-> <<>>, seen |-> {}])
  IN [defined |-> TRUE,
      files |-> <<LibFile>> \o [i \in 1..Len(done.order) |->
                     [path |-> done.order[i], src |-> d[done.order[i]]]],
      options |-> opts]

\* program.getSourceFile(fullPath): index into program.files, 0 when absent
GetSourceFile(prog, fullPath) ==
  IF \E i \in 1..Len(prog.files) : prog.files[i].path = fullPath
    THEN CHOOSE i \in 1..Len(prog.files) : prog.files[i].path = fullPath
  ELSE 0

\* sourceFile.isDeclarationFile
IsDeclarationFile(f) == Last(f.path) \in {"lib.d.ts"}

\* the files of a program as a file system: what the program's own module
\* resolutions were made against
ProgramDisk(prog) ==
  [p \in FilePaths |->
     IF GetSourceFile(prog, p) # 0 THEN prog.files[GetSourceFile(prog, p)].src
     ELSE "absent"]

----------------------------------------------------------------------------
(* The type checker's view of a module: checker.getSymbolAtLocation(sf) and *)
(* checker.getExportsOfModule(symbol).  A file's own exports come first, in *)
(* source order, then what its export-star statements forward.              *)

RECURSIVE Dedup(_, _)
Dedup(s, seen) ==
  IF s = <<>> THEN <<>>
  ELSE IF Head(s) \in seen THEN Dedup(Tail(s), seen)
  ELSE <<Head(s)>> \o Dedup(Tail(s), seen \cup {Head(s)})

\* the names one top-level statement puts in the module's export table
OwnExports(n) ==
  IF n.kind = "ExportDecl" THEN n.binds
  ELSE IF "export" \notin Range(n.mods) THEN <<>>
  ELSE IF n.kind = "VarStmt"
         THEN Flatten([i \in 1..Len(n.kids) |-> n.kids[i].binds])
  ELSE <<n.name>>

IsExportStar(n) == n.kind = "ExportDecl" /\ n.name = "*" /\ n.spec # ""

RECURSIVE ModuleExports(_, _, _)
ModuleExports(prog, path, visiting) ==
  LET i == GetSourceFile(prog, path)
      stmts == Ast(prog.files[i].src)
      own == Flatten([k \in 1..Len(stmts) |-> OwnExports(stmts[k])])
      stars == SelectSeq(stmts, IsExportStar)
      Forwarded(n) ==
        LET target == ResolveModuleName(n.spec, path, prog.options, ProgramDisk(prog))
        IN IF target = NoPath \/ target \in visiting THEN <<>>
           ELSE ModuleExports(prog, target, visiting \cup {target})
  IN IF i = 0 THEN <<>>
     ELSE Dedup(own \o Flatten([k \in 1..Len(stars) |-> Forwarded(stars[k])]), {})

----------------------------------------------------------------------------
(* What a call gives back: a text, or an exception that leaves the method  *)

Ok(text) == [ret |-> "ok", out |-> text]
Throws == [ret |-> "throw", out |-> <<>>]

----------------------------------------------------------------------------
(* PromptEngine.getRepoMap *)

\* f.fileName.includes('node_modules')
InNodeModules(f) == "node_modules" \in Range(f.path)

Listed(f) == ~IsDeclarationFile(f) /\ ~InNodeModules(f)

\* a map line whose name list is left empty when there is no export
RepoMapLineNoNone(prog, root, f, bound) ==
  LET relPath == PathText(PathRelative(root, f.path))
      exports == IF f.path \in bound THEN ModuleExports(prog, f.path, {f.path})
                 ELSE <<>>
      names == Join([i \in 1..Len(exports) |-> <<exports[i]>>], ", ")
  IN <<"[">> \o relPath \o <<"]: ">> \o names

\* one line of the map; bound is the set of files whose module symbol the
\* checker can give
RepoMapLine(prog, root, f, bound) ==
  LET relPath == PathText(PathRelative(root, f.path))
      exports == IF f.path \in bound THEN ModuleExports(prog, f.path, {f.path})
                 ELSE <<>>
      names == Join([i \in 1..Len(exports) |-> <<exports[i]>>], ", ")
  IN <<"[">> \o relPath \o <<"]: ">> \o (IF names = <<>> THEN <<"none">> ELSE names)

getRepoMap(prog, chk, root, bound) ==
  IF ~prog.defined \/ ~chk.defined THEN Ok(<<"Program not initialized">>)
  ELSE LET files == SelectSeq(prog.files, Listed)
       IN Ok(Join([i \in 1..Len(files) |-> RepoMapLine(prog, root, files[i], bound)], NL))

----------------------------------------------------------------------------
TypeError == 0 - 1

\* this.program.getSourceFile(fullPath), as the strict revisions call it
StrictGetSourceFile(prog, fullPath) ==
  IF ~prog.defined THEN TypeError ELSE GetSourceFile(prog, fullPath)

\* this.program?.getSourceFile(fullPath): undefined (0) when there is no
\* program; without the "?." the call on an undefined program throws
OptGetSourceFile(prog, fullPath) ==
  IF ~prog.defined THEN 0 ELSE GetSourceFile(prog, fullPath)

----------------------------------------------------------------------------
(* PromptEngine.getDeps *)

ExternalMarker == "External Library"

DepLine(prog, root, d, fullPath, n) ==
  LET rawPath == n.spec
      resolved == ResolveModuleName(rawPath, fullPath, prog.options, d)
  IN IF resolved # NoPath
       THEN <<"- ", rawPath, " -> ">> \o NormalizeRel(PathRelative(root, resolved))
     ELSE <<"- ", rawPath, " -> ", ExternalMarker>>

RECURSIVE AllNodes(_)
AllNodes(nodes) ==
  IF nodes = <<>> THEN <<>>
  ELSE <<Head(nodes)>> \o AllNodes(Head(nodes).kids) \o AllNodes(Tail(nodes))

\* a walk that also descends into nested scopes
getDepsDeep(prog, root, d, filePath) ==
  LET fullPath == PathResolve(root, filePath)
      sf == OptGetSourceFile(prog, fullPath)
      refs == SelectSeq(AllNodes(Ast(prog.files[sf].src)), IsModuleRef)
      dependencies == [i \in 1..Len(refs) |-> DepLine(prog, root, d, fullPath, refs[i])]
  IN IF sf = TypeError THEN Throws
     ELSE IF sf = 0 THEN Ok(<<"File not found">>)
     ELSE IF Len(dependencies) # 0 THEN Ok(Join(dependencies, NL))
     ELSE Ok(<<"No local dependencies found.">>)

\* ts.forEachChild(sf, ...): the statements of the file, not what they hold
getDeps(prog, root, d, filePath) ==
  LET fullPath == PathResolve(root, filePath)
      sf == OptGetSourceFile(prog, fullPath)
      refs == SelectSeq(Ast(prog.files[sf].src), IsModuleRef)
      dependencies == [i \in 1..Len(refs) |-> DepLine(prog, root, d, fullPath, refs[i])]
  IN IF sf = TypeError THEN Throws
     ELSE IF sf = 0 THEN Ok(<<"File not found">>)
     ELSE IF Len(dependencies) # 0 THEN Ok(Join(dependencies, NL))
     ELSE Ok(<<"No local dependencies found.">>)

----------------------------------------------------------------------------
(* PromptEngine.getSkeleton *)

\* modifiers.includes('export')
IncludesExport(mods) == "export" \in Range(mods)

ModifiersText(mods) == Join([i \in 1..Len(mods) |-> <<mods[i]>>], SP)

\* a walk that indents on every recursion, not only into a class
RECURSIVE SkeletonVisitDeepening(_, _)
SkeletonVisitDeepening(node, depth) ==
  LET indent == Indent(depth)
      Kids(dd) ==
        Flatten([i \in 1..Len(node.kids) |-> SkeletonVisitDeepening(node.kids[i], dd)])
      VarLine(decl) ==
        indent \o ModifiersText(node.mods)
          \o <<" const ", decl.name, "; // variable export", NL>>
  IN CASE node.kind \in {"Interface", "TypeAlias"} ->
            indent \o Trim(SplitBrace0(node.text)) \o <<" { /* ... */ }", NL>>
       [] node.kind = "Class" ->
            indent
              \o (IF node.mods # <<>> THEN ModifiersText(node.mods) \o <<SP>> ELSE <<>>)
              \o <<"class ", IF node.name # "" THEN node.name ELSE "Anonymous", " {", NL>>
              \o Kids(depth + 1)
              \o indent \o <<"}", NL>>
       [] node.kind \in {"Method", "Function", "Constructor"} ->
            indent \o Trim(SplitBrace0(node.text))
              \o <<"; // implementation hidden", NL>>
       [] node.kind = "VarStmt" ->
            IF IncludesExport(node.mods)
              THEN Flatten([i \in 1..Len(node.kids) |-> VarLine(node.kids[i])])
            ELSE <<>>
       [] node.kind = "ExportDecl" ->
            indent \o StripSemi(node.text) \o <<"; // re-export", NL>>
       [] OTHER -> Kids(depth + 1)

RECURSIVE SkeletonVisit(_, _)
SkeletonVisit(node, depth) ==
  LET indent == Indent(depth)
      Kids(dd) == Flatten([i \in 1..Len(node.kids) |-> SkeletonVisit(node.kids[i], dd)])
      VarLine(decl) ==
        indent \o ModifiersText(node.mods)
          \o <<" const ", decl.name, "; // variable export", NL>>
  IN CASE node.kind \in {"Interface", "TypeAlias"} ->
            indent \o Trim(SplitBrace0(node.text)) \o <<" { /* ... */ }", NL>>
       [] node.kind = "Class" ->
            indent
              \o (IF node.mods # <<>> THEN ModifiersText(node.mods) \o <<SP>> ELSE <<>>)
              \o <<"class ", IF node.name # "" THEN node.name ELSE "Anonymous", " {", NL>>
              \o Kids(depth + 1)
              \o indent \o <<"}", NL>>
       [] node.kind \in {"Method", "Function", "Constructor"} ->
            indent \o Trim(SplitBrace0(node.text))
              \o <<"; // implementation hidden", NL>>
       [] node.kind = "VarStmt" ->
            IF IncludesExport(node.mods)
              THEN Flatten([i \in 1..Len(node.kids) |-> VarLine(node.kids[i])])
            ELSE <<>>
       [] node.kind = "ExportDecl" ->
            indent \o StripSemi(node.text) \o <<"; // re-export", NL>>
       [] OTHER -> Kids(depth)

SkeletonBody(stmts) ==
  Flatten([i \in 1..Len(stmts) |-> SkeletonVisit(stmts[i], 0)])

getSkeleton(prog, root, d, cfg, filePath) ==
  LET fullPath == PathResolve(root, filePath)
      sf == OptGetSourceFile(prog, fullPath)
  IN IF sf = TypeError THEN Throws
     ELSE IF sf = 0
       THEN IF ExistsSync(d, cfg, fullPath) THEN Ok(<<"// Skeleton Error">>)
            ELSE Ok(<<"File not found">>)
     ELSE Ok(<<"// Skeleton for ">> \o PathText(filePath) \o <<NL>>
               \o SkeletonBody(Ast(prog.files[sf].src)))

----------------------------------------------------------------------------
(* PromptEngine.getMethodImplementation *)

\* node.name?.getText() === methodName; a constructor has no name
HasName(node) == node.kind # "Constructor" /\ node.name # ""

IsNamedDeclaration(node, methodName) ==
  /\ node.kind \in {"Function", "Method", "Constructor", "VarDecl"}
  /\ HasName(node)
  /\ node.name = methodName

\* a search in which a later match replaces an earlier one
RECURSIVE FindLast(_, _, _)
FindLast(nodes, parent, methodName) ==
  IF nodes = <<>> THEN <<>>
  ELSE LET node == Head(nodes)
           here == IF IsNamedDeclaration(node, methodName)
                     THEN IF node.kind = "VarDecl" /\ parent.kind = "VarStmt"
                            THEN parent.text
                          ELSE node.text
                   ELSE FindLast(node.kids, node, methodName)
           later == FindLast(Tail(nodes), parent, methodName)
       IN IF later # <<>> THEN later ELSE here

\* the first match in pre-order among nodes, <<>> when there is none
RECURSIVE FindFirst(_, _, _)
FindFirst(nodes, parent, methodName) ==
  IF nodes = <<>> THEN <<>>
  ELSE LET node == Head(nodes)
           here == IF IsNamedDeclaration(node, methodName)
                     THEN IF node.kind = "VarDecl" /\ parent.kind = "VarStmt"
                            THEN parent.text
                          ELSE node.text
                   ELSE FindFirst(node.kids, node, methodName)
       IN IF here # <<>> THEN here ELSE FindFirst(Tail(nodes), parent, methodName)

SourceFileNode(stmts) ==
  Nd("SourceFile", <<>>, "", <<>>, 0, <<>>, "", <<>>, stmts)

NotFoundText(methodName, filePath) ==
  <<"Definition for '", methodName, "' not found in ">> \o PathText(filePath)

\* the try block turns an exception into the not-found text
getMethodImplementation(prog, root, d, cfg, filePath, methodName) ==
  LET fullPath == PathResolve(root, filePath)
      sf == OptGetSourceFile(prog, fullPath)
      stmts == Ast(prog.files[sf].src)
      found == FindFirst(stmts, SourceFileNode(stmts), methodName)
  IN IF ~ExistsSync(d, cfg, fullPath) THEN Ok(<<"File not found">>)
     ELSE IF sf = TypeError THEN Ok(NotFoundText(methodName, filePath))
     ELSE IF sf # 0 /\ found # <<>> THEN Ok(found)
     ELSE Ok(NotFoundText(methodName, filePath))

----------------------------------------------------------------------------
(* PromptEngine.refresh and the constructor *)

\* the model refresh() builds from the file system: fileNames and options,
\* then ts.createProgram
BuildProgram(root, d, cfg) ==
  LET configPath == FindConfigFile(cfg, root)
      options == IF configPath # "none" THEN ConfigOptions(configPath)
                 ELSE DefaultOptions
      fileNames == IF configPath # "none" THEN ConfigFileNames(d, configPath)
                   ELSE getFilesRecursive(d, cfg, root, 0)
  IN CreateProgram(fileNames, options, d)

\* the strict revision's refresh(): no configuration file is an error
RefreshOutcomeStrict(prog, chk, root, d, cfg, fault) ==
  LET built == BuildProgram(root, d, cfg)
  IN IF FindConfigFile(cfg, root) = "none"
       THEN [ret |-> "throw", program |-> prog, checker |-> chk]
     ELSE [ret |-> "ok", program |-> built, checker |-> built]

\* a refresh() that adds the files it finds to those it already holds
RefreshOutcomeAppending(prog, chk, root, d, cfg, fault) ==
  LET built == BuildProgram(root, d, cfg)
      grown == [built EXCEPT !.files = prog.files \o built.files]
  IN [ret |-> "ok", program |-> grown, checker |-> grown]

\* refresh(): fault names the statement of the try block that throws, if any:
\* "build" one up to and including ts.createProgram, "checker" the call of
\* getTypeChecker; the catch block swallows it, so refresh() returns normally
RefreshOutcome(prog, chk, root, d, cfg, fault) ==
  LET built == BuildProgram(root, d, cfg)
  IN CASE fault = "none" -> [ret |-> "ok", program |-> built, checker |-> built]
       [] fault = "build" -> [ret |-> "ok", program |-> prog, checker |-> chk]
       [] fault = "checker" -> [ret |-> "ok", program |-> built, checker |-> chk]

\* constructor: rootDir is the target directory, or the working directory
\* when the target is empty or does not exist
ConstructorRoot(targetDir, d, cfg) ==
  LET resolved == IF targetDir # <<>> THEN targetDir ELSE CwdDir
  IN IF ~ExistsSync(d, cfg, resolved) THEN CwdDir ELSE resolved

----------------------------------------------------------------------------
(* The read_full_code tool of the server and its path check *)

\* String.prototype.startsWith on two names of directories
NameStartsWith(a, b) == a = b \/ <<a, b>> \in {<<"proj-old", "proj">>}

\* absolutePath.startsWith(rootDir), on the texts of the two paths
StartsWith(abs, root) ==
  \/ root = <<>>
  \/ /\ Len(abs) >= Len(root)
     /\ SubSeq(abs, 1, Len(root) - 1) = Front(root)
     /\ NameStartsWith(abs[Len(root)], Last(root))

\* getSafePath: the resolved path, or NoPath when it throws
getSafePath(root, relativePath) ==
  LET absolutePath == PathResolve(root, relativePath)
  IN IF ~StartsWith(absolutePath, root) THEN NoPath ELSE absolutePath

\* the handler of read_full_code: the content of the file, or an error result
ReadFullCodeResult(root, d, filePath) ==
  LET safePath == getSafePath(root, filePath)
  IN IF safePath = NoPath
       THEN [ret |-> "isError", out |-> <<"Error reading file: ", "Security Alert">>]
     ELSE IF ~FileExists(d, safePath)
       THEN [ret |-> "isError", out |-> <<"Error reading file: ", "ENOENT">>]
     ELSE [ret |-> "ok", out |-> <<"content of ">> \o PathText(safePath)]

----------------------------------------------------------------------------
Call(op, path, name, r) ==
  [op |-> op, path |-> path, name |-> name, ret |-> r.ret, out |-> r.out]

Done(op, ret) == [op |-> op, path |-> <<>>, name |-> "", ret |-> ret, out |-> <<>>]

----------------------------------------------------------------------------
(* Initial states: a project on disk and an engine constructed on it *)

MkDisk(a, b, u, n) ==
  [p \in FilePaths |->
     CASE p = PA -> a [] p = PB -> b [] p = PU -> u [] p = PN -> n
       [] p = PNotes -> "text" [] p = PC -> "tool" [] p = PS -> "tool"]

InitWorlds ==
  {[dir |-> ProjDir, d |-> MkDisk("math", "tool", "absent", "absent"), cfg |-> "plain"],
   [dir |-> ProjDir, d |-> MkDisk("app", "user", "tool", "libsrc"), cfg |-> "alias"],
   [dir |-> ProjDir, d |-> MkDisk("index", "tool", "tool", "absent"), cfg |-> "none"],
   [dir |-> ProjDir, d |-> MkDisk("class", "user", "tool", "absent"), cfg |-> "narrow"],
   [dir |-> MissingDir, d |-> MkDisk("math", "absent", "absent", "absent"), cfg |-> "none"]}

InitWith(fault) ==
  \E w \in InitWorlds :
    LET root == ConstructorRoot(w.dir, w.d, w.cfg)
        o == RefreshOutcome(NoProgram, NoProgram, root, w.d, w.cfg, fault)
    IN /\ disk = w.d
       /\ tsconfig = w.cfg
       /\ rootDir = root
       /\ program = o.program
       /\ checker = o.checker
       /\ result = [Done("new", o.ret) EXCEPT !.path = w.dir]
       /\ edits = 0
       /\ streak = 0

Init == InitWith("none")

----------------------------------------------------------------------------
(* The environment: files and the configuration change on disk *)

WriteFile ==
  \E p \in Mutable : \E c \in Contents(p) :
    /\ edits < MaxEdits
    /\ disk[p] # c
    /\ disk' = [disk EXCEPT ![p] = c]
    /\ edits' = edits + 1
    /\ streak' = 0
    /\ result' = Done("fs", "ok")
    /\ UNCHANGED <<tsconfig, rootDir, program, checker>>

DeleteFile ==
  \E p \in Mutable :
    /\ edits < MaxEdits
    /\ disk[p] # "absent"
    /\ disk' = [disk EXCEPT ![p] = "absent"]
    /\ edits' = edits + 1
    /\ streak' = 0
    /\ result' = Done("fs", "ok")
    /\ UNCHANGED <<tsconfig, rootDir, program, checker>>

WriteConfig ==
  \E c \in Configs \cup {"none"} :
    /\ edits < MaxEdits
    /\ tsconfig # c
    /\ tsconfig' = c
    /\ edits' = edits + 1
    /\ streak' = 0
    /\ result' = Done("fs", "ok")
    /\ UNCHANGED <<disk, rootDir, program, checker>>

----------------------------------------------------------------------------
(* The engine's operations *)

QueryPaths == {<<"a.ts">>, <<"b.ts">>, <<"src", "u.ts">>, <<"c.ts">>}

QueryNames == {"add", "run", "i"}

RefreshWith(fault) ==
  LET o == RefreshOutcome(program, checker, rootDir, disk, tsconfig, fault)
  IN /\ streak < MaxStreak
     /\ program' = o.program
     /\ checker' = o.checker
     /\ streak' = streak + 1
     /\ result' = Done("refresh", o.ret)
     /\ UNCHANGED <<disk, tsconfig, rootDir, edits>>

Refresh == RefreshWith("none")

\* the files whose module symbol the live checker can give: all of them when
\* the checker is the program's own; any of them when it was created for an
\* earlier program
BoundChoices ==
  LET paths == {program.files[i].path : i \in 1..Len(program.files)}
  IN IF checker = program THEN {paths} ELSE SUBSET paths

GetRepoMap ==
  \E bound \in BoundChoices :
    /\ result' = Call("getRepoMap", <<>>, "", getRepoMap(program, checker, rootDir, bound))
    /\ streak' = 0
    /\ UNCHANGED <<disk, tsconfig, rootDir, program, checker, edits>>

GetDeps ==
  \E f \in QueryPaths :
    /\ result' = Call("getDeps", f, "", getDeps(program, rootDir, disk, f))
    /\ streak' = 0
    /\ UNCHANGED <<disk, tsconfig, rootDir, program, checker, edits>>

GetSkeleton ==
  \E f \in QueryPaths :
    /\ result' = Call("getSkeleton", f, "",
                      getSkeleton(program, rootDir, disk, tsconfig, f))
    /\ streak' = 0
    /\ UNCHANGED <<disk, tsconfig, rootDir, program, checker, edits>>

GetMethodImplementation ==
  \E f \in QueryPaths : \E n \in QueryNames :
    /\ result' = Call("getMethodImplementation", f, n,
                      getMethodImplementation(program, rootDir, disk, tsconfig, f, n))
    /\ streak' = 0
    /\ UNCHANGED <<disk, tsconfig, rootDir, program, checker, edits>>

ReadRequests ==
  {<<"a.ts">>, <<"missing.ts">>, <<"..", "proj-old", "s.ts">>, <<"..", "cwd", "c.ts">>}

ReadFullCode ==
  \E filePath \in ReadRequests :
    /\ result' = Call("read_full_code", filePath, "",
                      ReadFullCodeResult(rootDir, disk, filePath))
    /\ streak' = 0
    /\ UNCHANGED <<disk, tsconfig, rootDir, program, checker, edits>>

Next ==
  \/ WriteFile
  \/ DeleteFile
  \/ WriteConfig
  \/ Refresh
  \/ GetRepoMap
  \/ GetDeps
  \/ GetSkeleton
  \/ GetMethodImplementation
  \/ ReadFullCode

Spec == Init /\ [][Next]_vars

----------------------------------------------------------------------------
(* The same engine where a statement of refresh()'s try block may throw *)

Faults == {"build", "checker"}

FaultInit == \E fault \in Faults \cup {"none"} : InitWith(fault)

RefreshFails == \E fault \in Faults : RefreshWith(fault)

FaultNext == Next \/ RefreshFails

FaultSpec == FaultInit /\ [][FaultNext]_vars

----------------------------------------------------------------------------
(* Vocabulary of the properties *)

Queries == {"getRepoMap", "getDeps", "getSkeleton", "getMethodImplementation"}

FullPath(f) == PathResolve(rootDir, f)

\* f names a source file of the current project model
InModel(f) == program.defined /\ GetSourceFile(program, FullPath(f)) # 0

ModelAst(f) == Ast(program.files[GetSourceFile(program, FullPath(f))].src)

\* a text cut into its lines
RECURSIVE Lines(_)
Lines(t) ==
  IF \A i \in 1..Len(t) : t[i] # NL THEN <<t>>
  ELSE LET k == CHOOSE i \in 1..Len(t) : t[i] = NL /\ \A j \in 1..(i - 1) : t[j] # NL
       IN <<SubSeq(t, 1, k - 1)>> \o Lines(SubSeq(t, k + 1, Len(t)))

OfKind(nodes, kinds) ==
  LET Is(n) == n.kind \in kinds
  IN SelectSeq(nodes, Is)

\* the signature of a callable: its text before its body, white space trimmed
FullSignature(n) == Trim(SubSeq(n.text, 1, n.hdr))

\* the nodes the skeleton walk comes to: it does not look inside type-level
\* declarations, callables, variable statements and export declarations
RECURSIVE Rendered(_)
Rendered(nodes) ==
  IF nodes = <<>> THEN <<>>
  ELSE LET n == Head(nodes)
           closed == {"Interface", "TypeAlias", "Method", "Function", "Constructor",
                      "VarStmt", "ExportDecl"}
       IN <<n>> \o (IF n.kind \in closed THEN <<>> ELSE Rendered(n.kids))
            \o Rendered(Tail(nodes))

AfterSkeletonOfModelFile == result.op = "getSkeleton" /\ InModel(result.path)

----------------------------------------------------------------------------
(* C1: for a path absent from the project model, getDeps, getSkeleton and  *)
(* getMethodImplementation return the text 'File not found' and do not     *)
(* throw, whether or not a file exists on disk at that path.               *)
C1_AbsentPathGivesNotFound ==
  (result.op \in {"getDeps", "getSkeleton", "getMethodImplementation"}
     /\ ~InModel(result.path))
    => (result.ret = "ok" /\ result.out = <<"File not found">>)

----------------------------------------------------------------------------
(* C2: for every callable getSkeleton renders, the output holds the        *)
(* callable's full signature followed by '; // implementation hidden' and  *)
(* nothing of its body, also when the signature itself contains a '{'.     *)
C2_SignatureKeptBodyHidden ==
  AfterSkeletonOfModelFile =>
    LET callables == OfKind(Rendered(ModelAst(result.path)),
                            {"Function", "Method", "Constructor"})
    IN \A i \in 1..Len(callables) :
         /\ Contains(result.out,
                     FullSignature(callables[i]) \o <<"; // implementation hidden">>)
         /\ \A a \in Range(callables[i].impl) : a \notin Range(result.out)

----------------------------------------------------------------------------
(* C3: refresh() is idempotent: once refresh() has run, a further refresh() *)
(* in a row, the files and the configuration unchanged, leaves the answers  *)
(* of all four queries, for every path and name, as they were.              *)
OutputsOf(prog, chk) ==
  LET paths == {prog.files[i].path : i \in 1..Len(prog.files)}
  IN [repoMap |-> getRepoMap(prog, chk, rootDir, paths),
      deps |-> [f \in QueryPaths |-> getDeps(prog, rootDir, disk, f)],
      skeleton |-> [f \in QueryPaths |->
                      getSkeleton(prog, rootDir, disk, tsconfig, f)],
      impl |-> [f \in QueryPaths |-> [n \in QueryNames |->
                  getMethodImplementation(prog, rootDir, disk, tsconfig, f, n)]]]

C3_RefreshIdempotent ==
  streak >= 1 =>
    LET again == RefreshOutcome(program, checker, rootDir, disk, tsconfig, "none")
    IN OutputsOf(again.program, again.checker) = OutputsOf(program, checker)

\* two refreshes in a row after the project changed on disk
C3_Witness == streak = 2 /\ edits = 1 /\ result.op = "refresh"

----------------------------------------------------------------------------
(* C4: getDeps reports an import through a configured alias prefix, its     *)
(* target file existing in the mapped directory, as                         *)
(* '- <specifier> -> <path of the target relative to the root>', and a bare *)
(* specifier that matches no alias and names no file as                     *)
(* '- <specifier> -> External Library'.                                     *)

\* the import and export-from statements among the statements of a file
References(stmts) ==
  LET HasSpecifier(n) == n.kind \in {"ImportDecl", "ExportDecl"} /\ n.spec # ""
  IN SelectSeq(stmts, HasSpecifier)

\* the entries of the loaded configuration's alias table a specifier falls under
AliasesOf(spec) ==
  LET segs == SpecInfo(spec).segs
      table == program.options.paths
  IN {k \in 1..Len(table) : Len(segs) > 1 /\ table[k].prefix = Head(segs)}

\* the file an aliased specifier stands for under alias entry e
AliasTarget(e, spec) ==
  LET segs == SpecInfo(spec).segs
  IN e.base \o e.to \o SubSeq(segs, 2, Len(segs) - 1) \o <<TsName(Last(segs))>>

\* some file on disk carries the name a bare specifier asks for
NamesSomeFile(spec) ==
  LET n == Last(SpecInfo(spec).segs)
  IN \E p \in FilePaths :
       /\ FileExists(disk, p)
       /\ \/ Last(p) = TsName(n)
          \/ (Len(p) > 1 /\ p[Len(p) - 1] = n /\ Last(p) = "index.ts")

----------------------------------------------------------------------------
(* C5: the constructor and refresh() do not throw when no configuration     *)
(* file can be found: the model is built with the default options from the  *)
(* source files found under the root, and the engine has a usable model.    *)
NoConfigFound == tsconfig = "none" \/ ~IsPrefix(ProjDir, rootDir)

\* the source files a walk of the root comes to
SourcesUnderRoot ==
  {p \in FilePaths :
     /\ FileExists(disk, p)
     /\ IsPrefix(rootDir, p)
     /\ IsSourceName(Last(p))
     /\ Range(p) \cap ignoreDirs = {}}

C5_BuildFallsBackWithoutConfig ==
  (result.op \in {"new", "refresh"} /\ NoConfigFound) =>
    /\ result.ret = "ok"
    /\ program.defined
    /\ checker = program
    /\ program.options = DefaultOptions
    /\ \A p \in SourcesUnderRoot : GetSourceFile(program, p) # 0

\* a refresh() after the project changed, no configuration file in reach
C5_Witness ==
  /\ result.op = "refresh"
  /\ NoConfigFound
  /\ edits = 1
  /\ SourcesUnderRoot # {}

----------------------------------------------------------------------------
(* C6: every query returns a text and raises no fault in every state of the *)
(* engine, the state a failed build left without a model included.          *)
C6_QueriesTotal == result.op \in Queries => result.ret = "ok"

\* a query answered by an engine that has no model
C6_Witness ==
  /\ result.op = "getSkeleton"
  /\ ~program.defined
  /\ result.ret = "ok"
  /\ result.out = <<"// Skeleton Error">>

----------------------------------------------------------------------------
(* C7: getSkeleton emits, for an exported variable statement, one line per  *)
(* name the statement binds, holding the export modifier and the name and   *)
(* ending '// variable export'; the initializer never appears; a variable   *)
(* statement that is not exported emits nothing.                            *)
BoundNames(stmt) == Flatten([k \in 1..Len(stmt.kids) |-> stmt.kids[k].binds])

Initializers(stmt) == UNION {Range(stmt.kids[k].impl) : k \in 1..Len(stmt.kids)}

C7_OneLinePerBoundName ==
  AfterSkeletonOfModelFile =>
    LET stmts == OfKind(Rendered(ModelAst(result.path)), {"VarStmt"})
        Exported(s) == "export" \in Range(s.mods)
        Private(s) == ~Exported(s)
        exported == SelectSeq(stmts, Exported)
        private == SelectSeq(stmts, Private)
        names == Flatten([i \in 1..Len(exported) |-> BoundNames(exported[i])])
    IN /\ Count(result.out, "; // variable export") = Len(names)
       /\ \A i \in 1..Len(names) :
            Contains(result.out,
                     <<"export", " const ", names[i], "; // variable export", NL>>)
       /\ \A i \in 1..Len(exported) :
            Initializers(exported[i]) \cap Range(result.out) = {}
       /\ \A i \in 1..Len(private) :
            \A b \in Range(BoundNames(private[i])) :
              ~Contains(result.out, <<" const ", b, "; // variable export">>)

----------------------------------------------------------------------------
(* C8: getSkeleton emits every export statement that forwards from another  *)
(* module as its text, the trailing ';' stripped, followed by               *)
(* '; // re-export', and gives the re-export marker to no other statement.  *)
C8_OnlyForwardingMarked ==
  AfterSkeletonOfModelFile =>
    LET decls == OfKind(Rendered(ModelAst(result.path)), {"ExportDecl"})
        Forwards(n) == n.spec # ""
        forwarding == SelectSeq(decls, Forwards)
        Bare(t) == IF t # <<>> /\ Last(t) = SEMI THEN Front(t) ELSE t
    IN /\ \A i \in 1..Len(forwarding) :
            Contains(result.out, Bare(forwarding[i].text) \o <<"; // re-export", NL>>)
       /\ Count(result.out, "; // re-export") = Len(forwarding)

----------------------------------------------------------------------------
(* C9: getRepoMap returns one line '[relativePath]: name1, name2, ...' per  *)
(* source file of the model that is not declaration-only, in the model's    *)
(* order, the names being the file's exported names, and 'none' in their    *)
(* place for a file that exports nothing.                                   *)
NotDeclarationOnly(f) == ~IsDeclarationFile(f)

OutsideNodeModules(f) == \A k \in 1..Len(f.path) : f.path[k] # "node_modules"

ExportedNames(f) == ModuleExports(program, f.path, {f.path})

MapLineOf(f) ==
  LET names == ExportedNames(f)
  IN <<"[">> \o PathText(PathRelative(rootDir, f.path)) \o <<"]: ">>
       \o (IF names = <<>> THEN <<"none">>
           ELSE Join([k \in 1..Len(names) |-> <<names[k]>>], ", "))

MapOf(files) == Join([i \in 1..Len(files) |-> MapLineOf(files[i])], NL)

C9_OneLinePerSourceFile ==
  (result.op = "getRepoMap" /\ program.defined /\ checker = program) =>
    result.out = MapOf(SelectSeq(program.files, NotDeclarationOnly))

(* C9, amended: the files listed are the source files of the model that are *)
(* not declaration-only and whose path does not contain 'node_modules'.     *)
C9_OneLinePerProjectFile ==
  (result.op = "getRepoMap" /\ program.defined /\ checker = program) =>
    LET Project(f) == NotDeclarationOnly(f) /\ OutsideNodeModules(f)
    IN result.out = MapOf(SelectSeq(program.files, Project))

\* a map of a model that holds a file of node_modules and a file without exports
C9_Witness ==
  /\ result.op = "getRepoMap"
  /\ \E i \in 1..Len(program.files) : ~OutsideNodeModules(program.files[i])
  /\ "none" \in Range(result.out)
  /\ NL \in Range(result.out)

----------------------------------------------------------------------------
(* C10: getDeps of a file in the model returns one line                     *)
(* '- <specifier> -> <path or External Library>' per top-level import or    *)
(* export-from statement, in source order, none for an import in an inner   *)
(* scope or an export without a specifier, and 'No local dependencies       *)
(* found.' when the file has no such statement.                             *)
IsDepTarget(t) ==
  \/ t = <<"External Library">>
  \/ \E p \in FilePaths : t = PathText(PathRelative(rootDir, p))

C10_OneLinePerTopLevelReference ==
  (result.op = "getDeps" /\ InModel(result.path)) =>
    LET refs == References(ModelAst(result.path))
        lines == Lines(result.out)
    IN IF refs = <<>> THEN result.out = <<"No local dependencies found.">>
       ELSE /\ Len(lines) = Len(refs)
            /\ \A i \in 1..Len(refs) :
                 /\ IsPrefix(<<"- ", refs[i].spec, " -> ">>, lines[i])
                 /\ IsDepTarget(SubSeq(lines[i], 4, Len(lines[i])))

\* a file with two export-from statements and an export without a specifier
C10_Witness ==
  /\ result.op = "getDeps"
  /\ InModel(result.path)
  /\ Len(OfKind(ModelAst(result.path), {"ExportDecl"})) = 3
  /\ Len(Lines(result.out)) = 2

----------------------------------------------------------------------------
(* C11: when getMethodImplementation matches a variable declaration it     *)
(* returns the full text of the statement the declaration stands in, so    *)
(* that the text of an exported variable starts with the export modifier;  *)
(* for a match of any other kind it returns the declaration's own text,    *)
(* its body included.                                                      *)

\* the nodes of a tree in pre-order, each with the node it stands in
RECURSIVE PreOrder(_, _)
PreOrder(nodes, up) ==
  IF nodes = <<>> THEN <<>>
  ELSE <<[n |-> Head(nodes), up |-> up]>>
         \o PreOrder(Head(nodes).kids, Head(nodes))
         \o PreOrder(Tail(nodes), up)

\* the function, method, constructor and variable declarations called name
Declarations(stmts, name) ==
  LET Named(e) ==
        /\ e.n.kind \in {"Function", "Method", "Constructor", "VarDecl"}
        /\ e.n.name = name
  IN SelectSeq(PreOrder(stmts, SourceFileNode(stmts)), Named)

\* getMethodImplementation has searched a file of the model
AfterSearchOfModelFile ==
  /\ result.op = "getMethodImplementation"
  /\ InModel(result.path)
  /\ FileExists(disk, FullPath(result.path))

C11_VariableGivesStatement ==
  AfterSearchOfModelFile =>
    LET found == Declarations(ModelAst(result.path), result.name)
    IN found # <<>> =>
         IF found[1].n.kind = "VarDecl"
           THEN /\ result.out = found[1].up.text
                /\ ("export" \in Range(found[1].up.mods)
                      => IsPrefix(<<"export const ">>, result.out))
         ELSE result.out = found[1].n.text

----------------------------------------------------------------------------
(* C12: getMethodImplementation searches the function, method, constructor *)
(* and variable declarations of the file in pre-order, exported or not,    *)
(* nested or not, comparing the declared name with the requested one for   *)
(* equality; the first match in pre-order is the one returned, whatever    *)
(* follows; without a match the result is                                  *)
(* "Definition for '<name>' not found in <f>".                             *)
C12_FirstInPreOrderWins ==
  AfterSearchOfModelFile =>
    LET found == Declarations(ModelAst(result.path), result.name)
    IN IF found = <<>>
         THEN result.out = <<"Definition for '", result.name, "' not found in ">>
                             \o PathText(result.path)
       ELSE result.out \in {found[1].n.text, found[1].up.text}

\* a method of a class found although a function of the same name follows it
C12_Witness ==
  /\ AfterSearchOfModelFile
  /\ Len(Declarations(ModelAst(result.path), result.name)) = 2
  /\ Declarations(ModelAst(result.path), result.name)[1].n.kind = "Method"
  /\ result.out = Declarations(ModelAst(result.path), result.name)[1].n.text

----------------------------------------------------------------------------
(* C13: in the skeleton every class declaration gives an opening line      *)
(* ending in '{' at its indentation d, the lines of its constructor and    *)
(* methods at indentation d+1, each with the hidden-body marker, and a     *)
(* closing '}' line at indentation d; indentation grows only on entering a *)
(* class, no other recursion changes it.                                   *)

\* the class declarations the walk comes to, each with the number of
\* classes around it
RECURSIVE Classes(_, _)
Classes(nodes, d) ==
  IF nodes = <<>> THEN <<>>
  ELSE LET n == Head(nodes)
           closed == {"Interface", "TypeAlias", "Method", "Function", "Constructor",
                      "VarStmt", "ExportDecl"}
       IN (IF n.kind = "Class" THEN <<[c |-> n, d |-> d]>> \o Classes(n.kids, d + 1)
           ELSE IF n.kind \in closed THEN <<>>
           ELSE Classes(n.kids, d))
          \o Classes(Tail(nodes), d)

\* the number of indentation units a line starts with
RECURSIVE IndentOf(_)
IndentOf(line) ==
  IF line # <<>> /\ Head(line) = "  " THEN 1 + IndentOf(Tail(line)) ELSE 0

Members(c) == OfKind(c.kids, {"Constructor", "Method"})

RECURSIVE SumMembers(_)
SumMembers(cs) ==
  IF cs = <<>> THEN 0 ELSE Len(Members(Head(cs).c)) + SumMembers(Tail(cs))

C13_ClassBlocksIndented ==
  AfterSkeletonOfModelFile =>
    LET lines == Lines(result.out)
        classes == Classes(ModelAst(result.path), 0)
        opens == {i \in 1..Len(lines) : lines[i] # <<>> /\ Last(lines[i]) = " {"}
        closes == {i \in 1..Len(lines) : lines[i] = Indent(IndentOf(lines[i])) \o <<"}">>}
        indented == {i \in 1..Len(lines) : IndentOf(lines[i]) > 0}
        inner == {k \in 1..Len(classes) : classes[k].d > 0}
    IN /\ Cardinality(opens) = Len(classes)
       /\ Cardinality(closes) = Len(classes)
       /\ Cardinality(indented) = SumMembers(classes) + 2 * Cardinality(inner)
       /\ \A k \in 1..Len(classes) :
            \E i \in opens :
              LET d == classes[k].d
                  m == Len(Members(classes[k].c))
              IN /\ IndentOf(lines[i]) = d
                 /\ Contains(lines[i], <<"class ", classes[k].c.name>>)
                 /\ i + m + 1 <= Len(lines)
                 /\ \A j \in 1..m :
                      /\ IndentOf(lines[i + j]) = d + 1
                      /\ Last(lines[i + j]) = "; // implementation hidden"
                 /\ lines[i + m + 1] = Indent(d) \o <<"}">>

\* a class with a constructor and a method, and a namespace holding a function
C13_Witness ==
  /\ AfterSkeletonOfModelFile
  /\ Contains(result.out, <<"class ", "Calculator", " {", NL,
                            "  ", "constructor(val: number)",
                            "; // implementation hidden", NL>>)
  /\ Contains(result.out, <<NL, "}", NL>>)
  /\ Contains(result.out, <<NL, "export function helper(): void",
                            "; // implementation hidden", NL>>)

----------------------------------------------------------------------------
(* C14: refresh() replaces the snapshot as a whole: after a refresh(), one *)
(* that fails at some step included, program and checker are either both   *)
(* what they were before the call or both of the newly built program,      *)
(* never the program of one build with the checker of another.             *)
C14_SnapshotSwappedWhole ==
  [][result'.op = "refresh" =>
       \/ (program' = program /\ checker' = checker)
       \/ (program'.defined /\ checker' = program')]_vars

----------------------------------------------------------------------------
(* C15: between two refreshes the queries read the snapshot alone: a file  *)
(* created, deleted or edited, or the configuration edited, with no        *)
(* refresh() since, leaves the answers of getRepoMap, getDeps, getSkeleton *)
(* and getMethodImplementation as they were after the last refresh(), and  *)
(* no query changes the snapshot.                                          *)

\* the answers of the four queries of the live snapshot, the project on
\* disk being d with configuration cfg
AnswersOn(d, cfg) ==
  LET paths == {program.files[i].path : i \in 1..Len(program.files)}
  IN [repoMap |-> getRepoMap(program, checker, rootDir, paths),
      deps |-> [f \in QueryPaths |-> getDeps(program, rootDir, d, f)],
      skeleton |-> [f \in QueryPaths |-> getSkeleton(program, rootDir, d, cfg, f)],
      impl |-> [f \in QueryPaths |-> [n \in QueryNames |->
                  getMethodImplementation(program, rootDir, d, cfg, f, n)]]]

C15_QueriesReadOnlySnapshot ==
  [][/\ result'.op = "fs" => AnswersOn(disk', tsconfig') = AnswersOn(disk, tsconfig)
     /\ result'.op \in Queries => (program' = program /\ checker' = checker)]_vars

----------------------------------------------------------------------------
(* C16: getSkeleton emits a function, method or constructor only when it   *)
(* is exported at the top level of the file or is a direct member of a     *)
(* class; a callable that is neither, such as a local helper function that *)
(* is not exported, gives no line.                                         *)
C16_OnlyExportedOrMemberCallables ==
  AfterSkeletonOfModelFile =>
    LET stmts == ModelAst(result.path)
        Callable(e) == e.n.kind \in {"Function", "Method", "Constructor"}
        Emitted(e) ==
          /\ Callable(e)
          /\ \/ e.up.kind = "Class"
             \/ (e.up.kind = "SourceFile" /\ "export" \in Range(e.n.mods))
        Dropped(e) == Callable(e) /\ ~Emitted(e)
        all == PreOrder(stmts, SourceFileNode(stmts))
        emitted == SelectSeq(all, Emitted)
        dropped == SelectSeq(all, Dropped)
    IN /\ Count(result.out, "; // implementation hidden") = Len(emitted)
       /\ \A i \in 1..Len(dropped) : Head(dropped[i].n.text) \notin Range(result.out)

----------------------------------------------------------------------------
(* C17: constructing the engine on a root directory that does not exist    *)
(* does not fail and gives an empty file set: the model holds no source    *)
(* file, and no file of another directory, such as the working directory,  *)
(* enters it.                                                              *)
C17_MissingRootGivesEmptyModel ==
  (result.op = "new" /\ ~DirExists(disk, result.path)) =>
    /\ result.ret = "ok"
    /\ \A i \in 1..Len(program.files) :
         \/ IsDeclarationFile(program.files[i])
         \/ IsPrefix(result.path, program.files[i].path)
    /\ \A i \in 1..Len(program.files) : IsDeclarationFile(program.files[i])

----------------------------------------------------------------------------
(* C18: for a file of the model without a recognized declaration (no       *)
(* interface or type alias, class, callable, exported variable or          *)
(* re-export) getSkeleton returns the fixed text                           *)
(* '// No structural definitions found.', not an empty or header-only one. *)
NoRecognizedDeclaration(stmts) ==
  \A i \in 1..Len(Rendered(stmts)) :
    LET n == Rendered(stmts)[i]
    IN /\ n.kind \notin {"Interface", "TypeAlias", "Class", "Function", "Method",
                         "Constructor", "ExportDecl"}
       /\ ~(n.kind = "VarStmt" /\ "export" \in Range(n.mods))

C18_NoDefinitionsMessage ==
  (AfterSkeletonOfModelFile /\ NoRecognizedDeclaration(ModelAst(result.path))) =>
    result.out = <<"// No structural definitions found.">>

----------------------------------------------------------------------------
(* C19: read_full_code reads a file only when the requested path, resolved *)
(* against the project root, lies inside the root directory; a request     *)
(* that resolves outside it, a sibling directory whose name starts with    *)
(* the root's name included, reads no file and gives an error result.      *)
InsideRoot(abs) == IsPrefix(rootDir, abs)

C19_ReadsOnlyInsideRoot ==
  result.op = "read_full_code" =>
    LET abs == PathResolve(rootDir, result.path)
    IN /\ ~InsideRoot(abs) => result.ret = "isError"
       /\ result.ret = "ok" => InsideRoot(abs)

====
